---- MODULE Spec2Model ----
(***************************************************************************)
(* Band orchestration of the Sentinel-2 L2A product reader                 *)
(* (s2reader.L2A.product.L2AProduct and the category readers it uses).     *)
(*                                                                         *)
(* A raster is a grid over Cells; a cell holds a rational number <<n, d>>  *)
(* in lowest terms (d > 0) or NaN (no-data).  The Stack (self.da) is the   *)
(* sequence of its band planes; <<>> stands for self.da = None.            *)
(***************************************************************************)
EXTENDS Integers, Sequences, FiniteSets, TLC

\* ---------------------------------------------------------------- bounds
NCells   == 2      \* cells of the spatial grid
MaxBatch == 2      \* longest tag list passed to read() / remove()
MaxBands == 2      \* update(da=...) is not called on a Stack longer than this
MaxRows  == 1      \* update(vec=...) is not called on a table longer than this
MaxExtra == 1      \* patterns added to a reader category's _PATTERNS

Cells == 1..NCells

\* ---------------------------------------------------------------- state
VARIABLES
    target_resolution,  \* self.target_resolution
    registry,   \* the reader categories: module and _PATTERNS of each of _READERS
    band_df,    \* the rows handed to BandReader._get_best
    best,       \* what _get_best returned for them
    message,    \* the duplicates named by the ValueError of _unique_tags
    steps,      \* the steps the last operation took, in order
    returns,    \* the kind of object each reader category's read() hands back
    product,    \* which product directory safe_path names (fixed at construction)
    da,         \* self.da: sequence of planes [band, data, orig]; <<>> is None
    mask,       \* self._mask: None or a boolean grid
    gdf,        \* self.gdf: sequence of rows; <<>> is None
    op,         \* the last operation called and its arguments
    err,        \* how it ended: "ok" or the exception raised
    calls,      \* the tags for which a reader's read() was invoked by it
    firstOcc,   \* tags in order of first occurrence over all read() calls
    requests,   \* the mask requests accumulated so far, as a set of (tag, values)
    reqOr,      \* OR over the accumulated mask requests of (unmasked source cell in values)
    prevLen,    \* number of bands of the Stack before the last operation
    nops        \* operations called since construction, counted up to 3

vars == <<product, target_resolution, returns, registry, band_df, best, message,
          da, mask, gdf, op, err, calls, steps, firstOcc, requests, reqOr,
          prevLen, nops>>

\* ---------------------------------------------------------------- values
\* Python's None
None == [none |-> TRUE]
NaN  == <<0, 0>>

Abs(x) == IF x < 0 THEN -x ELSE x

RECURSIVE Gcd(_, _)
Gcd(a, b) == IF b = 0 THEN a ELSE Gcd(b, a % b)

\* the rational n/d in lowest terms with a positive denominator (d # 0)
Rat(n, d) ==
    LET g == Gcd(Abs(n), Abs(d))
        s == IF d < 0 THEN -1 ELSE 1
    IN  <<(s * n) \div g, (s * d) \div g>>

\* float addition / division of one cell, NaN propagating
AddNum(v, k) == IF v = NaN THEN NaN ELSE Rat(v[1] + k * v[2], v[2])
DivNum(v, k) == IF v = NaN THEN NaN ELSE Rat(v[1], v[2] * k)

\* ---------------------------------------------------------------- readers
ReflectanceReader    == "ReflectanceReader"
ClassificationReader == "ClassificationReader"
AtmosphericReader    == "AtmosphericReader"

\* L2AProduct._READERS
READERS == <<ReflectanceReader, ClassificationReader, AtmosphericReader>>

\* the readers' _PATTERNS lists
PATTERNS(reader) ==
    CASE reader = ReflectanceReader ->
           <<"B01", "B02", "B03", "B04", "B05", "B06", "B07", "B08", "B8A",
             "B09", "B10", "B11", "B12">>
      [] reader = ClassificationReader -> <<"SCL">>
      [] reader = AtmosphericReader -> <<"WVP", "AOT">>

InList(x, list) == \E i \in 1..Len(list) : list[i] = x

\* the characters of the tags and of the literal patterns
Spelling(word) ==
    CASE word = "B01" -> <<"B", "0", "1">> [] word = "B02" -> <<"B", "0", "2">>
      [] word = "B03" -> <<"B", "0", "3">> [] word = "B04" -> <<"B", "0", "4">>
      [] word = "B05" -> <<"B", "0", "5">> [] word = "B06" -> <<"B", "0", "6">>
      [] word = "B07" -> <<"B", "0", "7">> [] word = "B08" -> <<"B", "0", "8">>
      [] word = "B8A" -> <<"B", "8", "A">> [] word = "B09" -> <<"B", "0", "9">>
      [] word = "B10" -> <<"B", "1", "0">> [] word = "B11" -> <<"B", "1", "1">>
      [] word = "B12" -> <<"B", "1", "2">> [] word = "SCL" -> <<"S", "C", "L">>
      [] word = "WVP" -> <<"W", "V", "P">> [] word = "AOT" -> <<"A", "O", "T">>
      [] word = "TCI" -> <<"T", "C", "I">>

\* the characters a tag is made of
Alphabet == {"A", "B", "C", "I", "L", "O", "P", "S", "T", "V", "W",
             "0", "1", "2", "3", "4", "5", "6", "7", "8", "9"}

\* a pattern as the regular expression re compiles it to: per position, the
\* characters accepted there (a letter or digit accepts itself, `.` any
\* character, `[2-4]` the characters of the range)
Compiled(pattern) ==
    CASE pattern = "B0[2-4]" -> <<{"B"}, {"0"}, {"2", "3", "4"}>>
      [] pattern = "TC." -> <<{"T"}, {"C"}, Alphabet>>
      [] OTHER -> [i \in 1..Len(Spelling(pattern)) |-> {Spelling(pattern)[i]}]

\* re.fullmatch(pattern, tag): the whole tag is accepted by the pattern
fullmatch(pattern, tag) ==
    /\ Len(Spelling(tag)) = Len(Compiled(pattern))
    /\ \A i \in 1..Len(Spelling(tag)) : Spelling(tag)[i] \in Compiled(pattern)[i]

\* BaseReader.compatible and L2AProduct._is_compatible over a list of patterns
compatible(tag, patterns) ==
    \E i \in 1..Len(patterns) : tag = patterns[i] \/ fullmatch(patterns[i], tag)

\* tags of a list that are not yet in seen, in order of first occurrence
RECURSIVE FirstOccurrences(_, _, _)
FirstOccurrences(seen, tags, i) ==
    IF i > Len(tags) THEN seen
    ELSE FirstOccurrences(IF InList(tags[i], seen) THEN seen ELSE Append(seen, tags[i]),
                          tags, i + 1)

\* the tags the callers of this model use: one per reader category and one
\* (the true-colour image) that no reader claims
TagOrder == <<"B02", "SCL", "WVP", "TCI">>
Tags == {TagOrder[i] : i \in 1..Len(TagOrder)}

\* ---------------------------------------------------------------- product directory
\* native resolutions of the image files of a band listed in MTD_MSIL2A.xml
Resolutions(tag) == IF tag = "SCL" THEN {20, 60} ELSE {10, 20, 60}

\* a complete manifest: every file listed and present on disk (file names
\* ..._<NAME>_<RES>m, matched by the pattern of _get_img_path).  The field dn
\* stands for the file's content: what its digital numbers add to RawOf.
FullManifest ==
    UNION {{[name |-> t, resolution |-> r, on_disk |-> TRUE, dn |-> 0] :
              r \in Resolutions(t)} : t \in Tags}

\* the manifests a product directory is drawn from: the complete one, and
\* one with no B02 file listed and the WVP files listed but absent from the disk
DamagedManifest ==
    {IF f.name = "WVP" THEN [f EXCEPT !.on_disk = FALSE] ELSE f :
        f \in {g \in FullManifest : g.name # "B02"}}

\* complete manifests that list the aerosol band as well, with two contents
AerosolManifest(k) ==
    UNION {{[name |-> t, resolution |-> r, on_disk |-> TRUE, dn |-> k] :
              r \in Resolutions(t)} : t \in {"B02", "SCL", "WVP", "AOT"}}

Products == {"complete", "damaged"}
AerosolProducts == {"aerosol", "aerosol_bright"}
Manifest(p) ==
    CASE p = "complete"       -> FullManifest
      [] p = "damaged"        -> DamagedManifest
      [] p = "aerosol"        -> AerosolManifest(0)
      [] p = "aerosol_bright" -> AerosolManifest(3)

\* digital numbers of the decoded, resampled plane of a band
RawOf(tag) ==
    CASE tag = "SCL" -> [c \in Cells |-> IF c % 3 = 1 THEN 0 ELSE IF c % 3 = 2 THEN 1 ELSE 3]
      [] tag = "B02" -> [c \in Cells |-> 3 + c]
      [] tag = "WVP" -> [c \in Cells |-> 2 * c]
      [] OTHER       -> [c \in Cells |-> c]

\* BOA_ADD_OFFSET per band tag and <type>_QUANTIFICATION_VALUE of the product metadata
BOA_ADD_OFFSET == [t \in {"B02"} |-> -2]
QUANTIFICATION_VALUE == [t \in {"BOA", "AOT", "WVP"} |->
                            CASE t = "BOA" -> 2 [] t = "AOT" -> 5 [] t = "WVP" -> 4]

\* ---------------------------------------------------------------- metadata.py
Ok(v)    == [err |-> "ok", val |-> v]
Raise(e) == [err |-> e, val |-> None]

\* Metadata.get_band_offset: KeyError when the band has no BOA_ADD_OFFSET entry
get_band_offset(band_tag) ==
    IF band_tag \in DOMAIN BOA_ADD_OFFSET
    THEN Ok(BOA_ADD_OFFSET[band_tag])
    ELSE Raise("KeyError")

\* Metadata.get_band_quantification
get_band_quantification(band_type) ==
    IF band_type \notin {"WVP", "AOT", "BOA"} THEN Raise("ValueError")
    ELSE IF band_type \notin DOMAIN QUANTIFICATION_VALUE THEN Raise("KeyError")
    ELSE Ok(QUANTIFICATION_VALUE[band_type])

\* ---------------------------------------------------------------- readers
\* _get_img_path without the comparison of the file's name with the tag
get_img_path_any(fs, tag) ==
    IF fs = {} THEN Raise("ValueError") ELSE
    Ok(CHOOSE f \in fs : \A g \in fs : f.resolution <= g.resolution)

\* IMGReader._get_img_path: ValueError when the metadata lists no image file
\* at all; otherwise the listed file of the band with the smallest native
\* resolution, or None when no listed file carries the band's name
get_img_path(fs, tag) ==
    IF fs = {} THEN Raise("ValueError") ELSE
    LET image_list == {f \in fs : f.name = tag}
    IN  IF image_list = {} THEN Ok(None)
        ELSE Ok(CHOOSE f \in image_list : \A g \in image_list : f.resolution <= g.resolution)

\* JP2Reader.read_jp2: FileNotFoundError when the file is not on disk, else
\* the decoded plane resampled to the target grid and tagged with the band
\* name (decoding and resampling belong to rioxarray; the files of the
\* modelled products decode).  The field orig keeps a plane as it was
\* delivered, for the claims; no handler reads it.
Plane(tag, grid) == [band |-> tag, data |-> grid, orig |-> grid]

read_jp2(tag, path) ==
    IF ~path.on_disk THEN Raise("FileNotFoundError")
    ELSE Ok(Plane(tag, [c \in Cells |-> <<RawOf(tag)[c] + path.dn, 1>>]))

\* ReflectanceReader.read: (raw + offset) / quantification('BOA')
ReflectanceRead(fs, tag) ==
    LET image_path == get_img_path(fs, tag) IN
    IF image_path.err # "ok" THEN image_path ELSE
    IF image_path.val = None THEN Raise("FileNotFoundError") ELSE
    LET band_data == read_jp2(tag, image_path.val) IN
    IF band_data.err # "ok" THEN band_data ELSE
    LET offset == get_band_offset(tag) IN
    IF offset.err # "ok" THEN offset ELSE
    LET quant == get_band_quantification("BOA") IN
    IF quant.err # "ok" THEN quant ELSE
    LET Cal(v) == DivNum(AddNum(v, offset.val), quant.val)
    IN  Ok(Plane(tag, [c \in Cells |-> Cal(band_data.val.data[c])]))

\* ClassificationReader.read: the plane as decoded
ClassificationRead(fs, tag) ==
    LET image_path == get_img_path(fs, tag) IN
    IF image_path.err # "ok" THEN image_path ELSE
    IF image_path.val = None THEN Raise("FileNotFoundError") ELSE
    read_jp2(tag, image_path.val)

\* AtmosphericReader.read dividing by the reflectance quantification value
AtmosphericRead_boa(fs, tag) ==
    LET image_path == get_img_path(fs, tag) IN
    IF image_path.err # "ok" THEN image_path ELSE
    IF image_path.val = None THEN Raise("FileNotFoundError") ELSE
    LET band_data == read_jp2(tag, image_path.val) IN
    IF band_data.err # "ok" THEN band_data ELSE
    LET quant == get_band_quantification("BOA") IN
    IF quant.err # "ok" THEN quant ELSE
    LET Cal(v) == DivNum(v, quant.val)
    IN  Ok(Plane(tag, [c \in Cells |-> Cal(band_data.val.data[c])]))

\* AtmosphericReader.read: raw / quantification(tag)
AtmosphericRead(fs, tag) ==
    LET image_path == get_img_path(fs, tag) IN
    IF image_path.err # "ok" THEN image_path ELSE
    IF image_path.val = None THEN Raise("FileNotFoundError") ELSE
    LET band_data == read_jp2(tag, image_path.val) IN
    IF band_data.err # "ok" THEN band_data ELSE
    LET quant == get_band_quantification(tag) IN
    IF quant.err # "ok" THEN quant ELSE
    LET Cal(v) == DivNum(v, quant.val)
    IN  Ok(Plane(tag, [c \in Cells |-> Cal(band_data.val.data[c])]))

\* The readers of this repository hand back a DataArray.  read() also has a
\* branch for a reader handing back a DataFrame and one for anything else;
\* returns[reader] says which kind of object a reader category hands back.
ReturnKinds == {"DataArray", "DataFrame", "other"}

\* what a reader category of the given kind hands back for a tag when the
\* readers of this repository hand back data
HandedBack(kind, tag, data) ==
    IF data.err # "ok" \/ kind = "DataArray" THEN data
    ELSE IF kind = "DataFrame" THEN Ok([row |-> tag])
    ELSE Ok([other |-> tag])

\* reader(self).read(tag)
ReaderRead(reader, fs, tag) ==
    HandedBack(returns[reader], tag,
               CASE reader = ReflectanceReader    -> ReflectanceRead(fs, tag)
                 [] reader = ClassificationReader -> ClassificationRead(fs, tag)
                 [] reader = AtmosphericReader    -> AtmosphericRead(fs, tag))

\* one step of a read: what is done, for which tag, and (for a fetch) the
\* native resolution of the file that is opened
Step(ev, tag, res) == [ev |-> ev, tag |-> tag, res |-> res]

\* the steps reader(self).read(tag) goes through, in the order of its
\* statements, up to its return or its exception: _get_img_path, read_jp2
\* (open and reproject), and the offset / quantification arithmetic of the
\* reflectance and atmospheric readers
ReaderSteps(reader, fs, tag) ==
    LET image_path == get_img_path(fs, tag)
        located    == image_path.err = "ok" /\ image_path.val # None
        fetched    == located /\ read_jp2(tag, image_path.val).err = "ok"
    IN  <<Step("locate", tag, 0)>>
        \o (IF located THEN <<Step("fetch", tag, image_path.val.resolution)>> ELSE <<>>)
        \o (IF fetched /\ reader # ClassificationReader
            THEN <<Step("calibrate", tag, 0)>> ELSE <<>>)

\* ---------------------------------------------------------------- product.py
\* The handlers work on a record s = [da, mask, gdf, err, calls, steps] of the
\* product's fields, the outcome so far, the log of reader invocations and the
\* log of the steps taken.

BandTags(d) == [i \in 1..Len(d) |-> d[i].band]

\* L2AProduct._exists
exists(d, tag) == d # <<>> /\ \E i \in 1..Len(d) : d[i].band = tag

\* update() putting the new plane in front of the band axis
update_prepend(s, vec, darg) ==
    IF vec = None /\ darg = None THEN [s EXCEPT !.err = "Exception"]
    ELSE IF vec # None /\ darg # None THEN [s EXCEPT !.err = "Exception"]
    ELSE IF darg # None
         THEN [s EXCEPT !.da = <<darg>> \o s.da]
         ELSE [s EXCEPT !.gdf = IF s.gdf = <<>> THEN <<vec>> ELSE s.gdf \o <<vec>>]

\* update() accepting a raster and a table together, merging the raster
update_accepts_both(s, vec, darg) ==
    IF vec = None /\ darg = None THEN [s EXCEPT !.err = "Exception"]
    ELSE IF darg # None
         THEN [s EXCEPT !.da = IF s.da = <<>> THEN <<darg>> ELSE s.da \o <<darg>>]
         ELSE [s EXCEPT !.gdf = IF s.gdf = <<>> THEN <<vec>> ELSE s.gdf \o <<vec>>]

\* update() dropping the table when it merges a raster
update_drops_table(s, vec, darg) ==
    IF vec = None /\ darg = None THEN [s EXCEPT !.err = "Exception"]
    ELSE IF vec # None /\ darg # None THEN [s EXCEPT !.err = "Exception"]
    ELSE IF darg # None
         THEN [s EXCEPT !.da = IF s.da = <<>> THEN <<darg>> ELSE s.da \o <<darg>>,
                        !.gdf = <<>>]
         ELSE [s EXCEPT !.gdf = IF s.gdf = <<>> THEN <<vec>> ELSE s.gdf \o <<vec>>]

\* L2AProduct.update
update(s, vec, darg) ==
    IF vec = None /\ darg = None THEN [s EXCEPT !.err = "Exception"]
    ELSE IF vec # None /\ darg # None THEN [s EXCEPT !.err = "Exception"]
    ELSE IF darg # None
         THEN [s EXCEPT !.da = IF s.da = <<>> THEN <<darg>> ELSE s.da \o <<darg>>]
         ELSE [s EXCEPT !.gdf = IF s.gdf = <<>> THEN <<vec>> ELSE s.gdf \o <<vec>>]

\* _apply_mask() filtering the first band only
apply_mask_first_band(s) ==
    IF s.mask = None THEN s
    ELSE IF s.da = <<>> THEN [s EXCEPT !.err = "AttributeError"]
    ELSE [s EXCEPT !.da = [i \in 1..Len(s.da) |->
             [s.da[i] EXCEPT !.data = [c \in Cells |->
                 IF s.mask[c] /\ i = 1 THEN NaN ELSE s.da[i].data[c]]]]]

\* L2AProduct._apply_mask: self.da.where(~self._mask) when a mask exists
apply_mask(s) ==
    IF s.mask = None THEN s
    ELSE IF s.da = <<>> THEN [s EXCEPT !.err = "AttributeError"]
    ELSE [s EXCEPT !.da = [i \in 1..Len(s.da) |->
             [s.da[i] EXCEPT !.data = [c \in Cells |->
                 IF s.mask[c] THEN NaN ELSE s.da[i].data[c]]]]]

IsDataArray(data) == "band" \in DOMAIN data
IsDataFrame(data) == "row" \in DOMAIN data

\* read skipping an object that is neither a DataArray nor a DataFrame
merge_lenient(s, data) ==
    IF IsDataArray(data) THEN update(s, None, data)
    ELSE IF IsDataFrame(data) THEN update(s, data, None)
    ELSE s

\* read: what is done with the object a reader handed back
merge(s, data) ==
    IF IsDataArray(data) THEN update(s, None, data)
    ELSE IF IsDataFrame(data) THEN update(s, data, None)
    ELSE [s EXCEPT !.err = "Exception"]

\* read, for one tag and the reader that claims it: the reader went through
\* taken and handed back data (or raised), and what it handed back is merged
Dispatch(s, tag, taken, data) ==
    LET called == [s EXCEPT !.calls = Append(@, tag), !.steps = @ \o taken]
        merged == merge(called, data.val)
    IN  IF data.err # "ok" THEN [called EXCEPT !.err = data.err]
        ELSE IF merged.err # "ok" THEN merged
        ELSE [merged EXCEPT !.steps = Append(@, Step("merge", tag, 0))]

\* the body of the loop over self._READERS in read, from reader number r on
\* (registry holds the module and the _PATTERNS of each of _READERS); an
\* exception ends the loop
RECURSIVE ReadTag(_, _, _, _)
ReadTag(s, fs, tag, r) ==
    IF r > Len(registry) \/ s.err # "ok" THEN s
    ELSE IF ~InList(tag, registry[r].patterns) THEN ReadTag(s, fs, tag, r + 1)
    ELSE IF exists(s.da, tag) THEN ReadTag(s, fs, tag, r + 1)
    ELSE ReadTag(Dispatch(s, tag, ReaderSteps(registry[r].module, fs, tag),
                          ReaderRead(registry[r].module, fs, tag)),
                 fs, tag, r + 1)

\* the loop over tags in read applying the Mask after every tag
RECURSIVE ReadTags_mask_each(_, _, _, _)
ReadTags_mask_each(s, fs, tags, i) ==
    IF i > Len(tags) \/ s.err # "ok" THEN s
    ELSE LET t == ReadTag(s, fs, tags[i], 1)
         IN  ReadTags_mask_each(
                 IF t.err # "ok" THEN t
                 ELSE apply_mask([t EXCEPT !.steps = Append(@, Step("apply_mask", "", 0))]),
                 fs, tags, i + 1)

\* the loop over tags in read, from position i on; an exception ends it
RECURSIVE ReadTags(_, _, _, _)
ReadTags(s, fs, tags, i) ==
    IF i > Len(tags) \/ s.err # "ok" THEN s
    ELSE ReadTags(ReadTag(s, fs, tags[i], 1), fs, tags, i + 1)

\* L2AProduct.read
read(s, fs, tags) ==
    LET t == ReadTags(s, fs, tags, 1)
    IN  IF t.err # "ok" THEN t
        ELSE apply_mask([t EXCEPT !.steps = Append(@, Step("apply_mask", "", 0))])

\* remove() selecting the named bands instead of the others
remove_selected(s, tags) ==
    IF s.da = <<>> THEN [s EXCEPT !.err = "ValueError"]
    ELSE LET remaining_bands == {i \in 1..Len(s.da) : InList(s.da[i].band, tags)}
             Keep(p) == InList(p.band, tags)
         IN  IF Cardinality(remaining_bands) = Len(s.da)
             THEN [s EXCEPT !.da = <<>>]
             ELSE [s EXCEPT !.da = SelectSeq(s.da, Keep)]

\* remove() without the check for an empty Stack
remove_unchecked(s, tags) ==
    LET Keep(p) == ~InList(p.band, tags)
    IN  [s EXCEPT !.da = SelectSeq(s.da, Keep)]

\* remove() dropping the Mask together with the last band
remove_clears_mask(s, tags) ==
    IF s.da = <<>> THEN [s EXCEPT !.err = "ValueError"]
    ELSE LET remaining_bands == {i \in 1..Len(s.da) : InList(s.da[i].band, tags)}
             Keep(p) == ~InList(p.band, tags)
         IN  IF Cardinality(remaining_bands) = Len(s.da)
             THEN [s EXCEPT !.da = <<>>, !.mask = None]
             ELSE [s EXCEPT !.da = SelectSeq(s.da, Keep)]

\* L2AProduct.remove (every plane of the Stack has a band axis)
remove(s, tags) ==
    IF s.da = <<>> THEN [s EXCEPT !.err = "ValueError"]
    ELSE LET remaining_bands == {i \in 1..Len(s.da) : InList(s.da[i].band, tags)}
             Keep(p) == ~InList(p.band, tags)
         IN  IF Cardinality(remaining_bands) = Len(s.da)
             THEN [s EXCEPT !.da = <<>>]
             ELSE [s EXCEPT !.da = SelectSeq(s.da, Keep)]

\* the value of a request's list that compares greatest
LastValue(values) == CHOOSE v \in values : \A w \in values : w[1] * v[2] <= v[1] * w[2]

\* _add_mask() keeping only the comparison with the last value of the list
add_mask_last_value(s, fs, tag, values) ==
    LET t == read(s, fs, <<tag>>) IN
    IF t.err # "ok" THEN t
    ELSE IF t.da = <<>> THEN [t EXCEPT !.err = "AttributeError"]
    ELSE IF ~exists(t.da, tag) THEN [t EXCEPT !.err = "KeyError"]
    ELSE LET arr  == (CHOOSE p \in {t.da[i] : i \in 1..Len(t.da)} : p.band = tag).data
             old  == IF t.mask = None THEN [c \in Cells |-> FALSE] ELSE t.mask
             new  == [c \in Cells |-> arr[c] = LastValue(values)]
         IN  [t EXCEPT !.mask = [c \in Cells |-> old[c] \/ new[c]]]

\* _add_mask() replacing the master mask instead of OR-ing into it
add_mask_overwrite(s, fs, tag, values) ==
    LET t == read(s, fs, <<tag>>) IN
    IF t.err # "ok" THEN t
    ELSE IF t.da = <<>> THEN [t EXCEPT !.err = "AttributeError"]
    ELSE IF ~exists(t.da, tag) THEN [t EXCEPT !.err = "KeyError"]
    ELSE LET arr  == (CHOOSE p \in {t.da[i] : i \in 1..Len(t.da)} : p.band = tag).data
             new  == [c \in Cells |-> \E v \in values : arr[c] = v]
         IN  [t EXCEPT !.mask = new]

\* _add_mask() combining the new cells with the master mask by AND
add_mask_and(s, fs, tag, values) ==
    LET t == read(s, fs, <<tag>>) IN
    IF t.err # "ok" THEN t
    ELSE IF t.da = <<>> THEN [t EXCEPT !.err = "AttributeError"]
    ELSE IF ~exists(t.da, tag) THEN [t EXCEPT !.err = "KeyError"]
    ELSE LET arr  == (CHOOSE p \in {t.da[i] : i \in 1..Len(t.da)} : p.band = tag).data
             new  == [c \in Cells |-> \E v \in values : arr[c] = v]
         IN  IF t.mask = None THEN [t EXCEPT !.mask = new]
             ELSE [t EXCEPT !.mask = [c \in Cells |-> t.mask[c] /\ new[c]]]

\* L2AProduct._add_mask
add_mask(s, fs, tag, values) ==
    LET t == read(s, fs, <<tag>>) IN
    IF t.err # "ok" THEN t
    ELSE IF t.da = <<>> THEN [t EXCEPT !.err = "AttributeError"]
    ELSE IF ~exists(t.da, tag) THEN [t EXCEPT !.err = "KeyError"]
    ELSE LET arr  == (CHOOSE p \in {t.da[i] : i \in 1..Len(t.da)} : p.band = tag).data
             old  == IF t.mask = None THEN [c \in Cells |-> FALSE] ELSE t.mask
             new  == [c \in Cells |-> \E v \in values : arr[c] = v]
         IN  [t EXCEPT !.mask = [c \in Cells |-> old[c] \/ new[c]]]

\* the reader categories as _unique_tags sees them: reader.__module__ and
\* reader._PATTERNS, in the order of _READERS
RECURSIVE TagEntries(_, _)
TagEntries(reg, r) ==
    IF r > Len(reg) THEN <<>>
    ELSE [i \in 1..Len(reg[r].patterns) |->
             [tag |-> reg[r].patterns[i], module |-> reg[r].module]]
         \o TagEntries(reg, r + 1)

\* L2AProduct._unique_tags: tag_to_readers lists, per tag, the module of every
\* _PATTERNS entry that holds it; the tags listed more than once are reported
\* (in the order the tags were first met) in the message of a ValueError
unique_tags(reg) ==
    LET entries == TagEntries(reg, 1)
        tags    == FirstOccurrences(<<>>, [i \in 1..Len(entries) |-> entries[i].tag], 1)
        tag_to_readers(t) ==
            LET Holds(e) == e.tag = t
                held     == SelectSeq(entries, Holds)
            IN  [i \in 1..Len(held) |-> held[i].module]
        Dup(t)     == Len(tag_to_readers(t)) > 1
        dups       == SelectSeq(tags, Dup)
        duplicates == [i \in 1..Len(dups) |->
                          [tag |-> dups[i], readers |-> tag_to_readers(dups[i])]]
    IN  IF duplicates # <<>>
        THEN [err |-> "ValueError", message |-> duplicates]
        ELSE [err |-> "ok", message |-> <<>>]

\* ---------------------------------------------------------------- band.py
\* BandReader._get_best on the rows band_df of one band, each row keeping its
\* label (index) of the full file table.  `target in band_df['resolution']`
\* is membership in the index of that column, i.e. in the row labels;
\* .iloc[0] of an empty selection raises IndexError.
get_best(df, target) ==
    IF \E i \in 1..Len(df) : df[i].label = target
    THEN LET Same(row) == row.resolution = target
             same      == SelectSeq(df, Same)
         IN  IF same = <<>> THEN Raise("IndexError") ELSE Ok(same[1])
    ELSE LET idxmin == CHOOSE i \in 1..Len(df) :
                          /\ \A j \in 1..Len(df) : df[i].resolution <= df[j].resolution
                          /\ \A j \in 1..(i - 1) : df[j].resolution > df[i].resolution
         IN  Ok(df[idxmin])

\* IMAGE_FILE entries of the product metadata
files == Manifest(product)

\* the product's fields as a handler sees them on entry
Self == [da |-> da, mask |-> mask, gdf |-> gdf, err |-> "ok", calls |-> <<>>, steps |-> <<>>]

\* ---------------------------------------------------------------- callers
\* tag lists of length 0..MaxBatch
TagLists == UNION {[1..n -> Tags] : n \in 0..MaxBatch}

\* tag lists for remove(): remove() looks at its tags only through isin(), so
\* one list per set of at most MaxBatch tags stands for all its orderings
RECURSIVE ListOf(_, _)
ListOf(S, i) ==
    IF i > Len(TagOrder) THEN <<>>
    ELSE (IF i \in S THEN <<TagOrder[i]>> ELSE <<>>) \o ListOf(S, i + 1)

TagSets == {ListOf(S, 1) : S \in {T \in SUBSET (1..Len(TagOrder)) : Cardinality(T) <= MaxBatch}}

\* value lists of the mask requests (floats, as rationals)
ValueSets == { {<<0, 1>>, <<3, 1>>}, {<<1, 1>>} }

\* planes and rows that callers hand to update()
UpdatePlanes == { Plane("B02", [c \in Cells |-> <<c, 1>>]) }
UpdateRows   == { [row |-> "footprint"] }

Min(a, b) == IF a < b THEN a ELSE b

Commit(t, name, tags, values) ==
    /\ da' = t.da
    /\ mask' = t.mask
    /\ gdf' = t.gdf
    /\ err' = t.err
    /\ calls' = t.calls
    /\ steps' = t.steps
    /\ op' = [name |-> name, tags |-> tags, values |-> values]
    /\ nops' = Min(nops + 1, 3)
    /\ prevLen' = Len(da)
    /\ UNCHANGED <<product, target_resolution, returns, registry, band_df, best, message>>

\* the reader categories of this repository
StandardRegistry ==
    [r \in 1..Len(READERS) |-> [module |-> READERS[r], patterns |-> PATTERNS(READERS[r])]]

\* the fields of a product before any operation on it
Empty ==
    /\ da = <<>>
    /\ mask = None
    /\ gdf = <<>>
    /\ err = "ok"
    /\ calls = <<>>
    /\ steps = <<>>
    /\ firstOcc = <<>>
    /\ requests = {}
    /\ reqOr = [c \in Cells |-> FALSE]
    /\ nops = 0
    /\ prevLen = 0
    /\ message = <<>>

\* a product constructed without a mask argument
Fresh == Empty /\ op = [name |-> "__init__", tags |-> <<>>, values |-> {}]

\* the readers and the settings of a product of this repository with the
\* default target resolution; no call of BandReader._get_best
Standard ==
    /\ target_resolution = 10
    /\ returns = [r \in {READERS[i] : i \in 1..Len(READERS)} |-> "DataArray"]
    /\ registry = StandardRegistry
    /\ band_df = <<>>
    /\ best = None

Init ==
    /\ product \in Products
    /\ Standard
    /\ Fresh

\* product.read(*tags)
Read(tags) ==
    /\ \E t \in {read(Self, files, tags)} : Commit(t, "read", tags, {})
    /\ UNCHANGED reqOr

\* product.remove(*tags)
Remove(tags) ==
    /\ \E t \in {remove(Self, tags)} : Commit(t, "remove", tags, {})
    /\ UNCHANGED reqOr

\* product.update(vec=..., da=...); op keeps the band tag of the raster and
\* the rows of the table handed in
Update(vec, darg) ==
    /\ darg # None => Len(da) <= MaxBands
    /\ vec # None => Len(gdf) <= MaxRows
    /\ \E t \in {update(Self, vec, darg)} :
          Commit(t, "update", IF darg = None THEN <<>> ELSE <<darg.band>>,
                 IF vec = None THEN {} ELSE {vec})
    /\ UNCHANGED reqOr

\* product._add_mask(tag, values): a mask request; the requests made before
\* any other operation are those of the constructor's mask argument.
\* (A request on a tag that update() has put on the band axis twice is not modelled.)
AddMask(tag, values) ==
    /\ Cardinality({i \in 1..Len(da) : da[i].band = tag}) <= 1
    /\ \E t \in {add_mask(Self, files, tag, values)} :
       LET src == (CHOOSE p \in {t.da[i] : i \in 1..Len(t.da)} : p.band = tag).orig
       IN  /\ Commit(t, "_add_mask", <<tag>>, values)
           /\ reqOr' = IF t.err = "ok"
                       THEN [c \in Cells |-> reqOr[c] \/ src[c] \in values]
                       ELSE reqOr

\* every read() call ever issued, the one inside _add_mask included
Track(tags) == firstOcc' = FirstOccurrences(firstOcc, tags, 1)

Next ==
    \/ \E tags \in TagLists : Read(tags) /\ UNCHANGED <<firstOcc, requests>>
    \/ \E tags \in TagSets : Remove(tags) /\ UNCHANGED <<firstOcc, requests>>
    \/ \E tag \in Tags, values \in ValueSets : AddMask(tag, values) /\ UNCHANGED <<firstOcc, requests>>

Spec == Init /\ [][Next]_vars

\* the same operations with the history of read() calls kept in firstOcc, on
\* a complete product directory (reads of the tags a reader claims, mask
\* requests on the classification band with one value list)
InitOrder == Init /\ product = "complete"

NextOrder ==
    \/ \E tags \in {t \in TagLists : \A i \in 1..Len(t) : t[i] # "TCI"} :
          Read(tags) /\ Track(tags) /\ UNCHANGED requests
    \/ \E tags \in TagSets : Remove(tags) /\ UNCHANGED <<firstOcc, requests>>
    \/ \E tag \in {"SCL"}, values \in {{<<1, 1>>}} : AddMask(tag, values) /\ Track(<<tag>>) /\ UNCHANGED requests

SpecOrder == InitOrder /\ [][NextOrder]_vars

\* read, remove and update() calls on a product that holds no mask: table
\* rows and planes handed in by the caller
NextUpdate ==
    \/ \E tags \in {t \in TagLists : Len(t) <= 1} : Read(tags) /\ UNCHANGED <<firstOcc, requests>>
    \/ \E tags \in TagSets : Remove(tags) /\ UNCHANGED <<firstOcc, requests>>
    \/ \E vec \in UpdateRows \cup {None}, darg \in UpdatePlanes \cup {None} :
          Update(vec, darg) /\ UNCHANGED <<firstOcc, requests>>

SpecUpdate == Init /\ [][NextUpdate]_vars

\* ---- update() on a product that holds a mask
\* the calls of NextUpdate and mask requests on the classification band
NextFrame ==
    \/ NextUpdate
    \/ \E values \in ValueSets :
          AddMask("SCL", values) /\ UNCHANGED <<firstOcc, requests>>

SpecFrame == Init /\ [][NextFrame]_vars

\* ---- mask requests kept as a set
\* a mask request that returned normally joins the set of requests
Record(tag, values) ==
    requests' = IF err' = "ok"
                THEN requests \cup {[tag |-> tag, values |-> values]}
                ELSE requests

\* reads of at most one tag, removes, and mask requests on the classification
\* and the water-vapour band of a complete product, the requests that
\* returned normally kept in requests
MaskTags == {"SCL", "WVP"}

NextMask ==
    \/ \E tags \in {t \in TagLists : Len(t) <= 1} :
          Read(tags) /\ UNCHANGED <<firstOcc, requests>>
    \/ \E tags \in TagSets : Remove(tags) /\ UNCHANGED <<firstOcc, requests>>
    \/ \E tag \in MaskTags, values \in ValueSets :
          AddMask(tag, values) /\ Record(tag, values) /\ UNCHANGED firstOcc

SpecMask == InitOrder /\ [][NextMask]_vars

\* ---- the readers on products that list every band they claim
\* read batches on a complete product that lists the aerosol band as well,
\* with one of two file contents
ReaderTags == {"B02", "SCL", "WVP", "AOT"}

InitReaders ==
    /\ product \in AerosolProducts
    /\ Standard
    /\ Fresh

NextReaders ==
    \E tags \in UNION {[1..n -> ReaderTags] : n \in 0..MaxBatch} :
       Read(tags) /\ UNCHANGED <<firstOcc, requests>>

SpecReaders == InitReaders /\ [][NextReaders]_vars

\* the same read batches on a product constructed with one of several target
\* resolutions
TargetResolutions == {10, 15, 20}

InitLocate ==
    /\ product = "aerosol"
    /\ target_resolution \in TargetResolutions
    /\ returns = [r \in {READERS[i] : i \in 1..Len(READERS)} |-> "DataArray"]
    /\ registry = StandardRegistry
    /\ band_df = <<>>
    /\ best = None
    /\ Fresh

SpecLocate == InitLocate /\ [][NextReaders]_vars

\* ---- reader categories that hand back other kinds of object
\* read and remove on a complete product of which at most one reader category
\* hands back a DataFrame or something else instead of a DataArray; read is
\* called with tags that a reader claims, on a table of at most MaxRows rows
ReturnProfiles ==
    {f \in [{READERS[i] : i \in 1..Len(READERS)} -> ReturnKinds] :
        Cardinality({reader \in DOMAIN f : f[reader] # "DataArray"}) <= 1}

InitContract ==
    /\ product = "complete"
    /\ target_resolution = 10
    /\ returns \in ReturnProfiles
    /\ registry = StandardRegistry
    /\ band_df = <<>>
    /\ best = None
    /\ Fresh

NextContract ==
    \/ \E tags \in {t \in TagLists : \A i \in 1..Len(t) : t[i] # "TCI"} :
          Len(gdf) <= MaxRows /\ Read(tags) /\ UNCHANGED <<firstOcc, requests>>
    \/ \E tags \in TagSets : Remove(tags) /\ UNCHANGED <<firstOcc, requests>>

SpecContract == InitContract /\ [][NextContract]_vars

\* ---- BandReader._get_best over candidate tables
\* labels that rows of one band have in the full file table of a product, the
\* native resolutions of a band's files, and the target resolutions tried
RowLabels == {0, 8, 20, 21}
NativeResolutions == {10, 20, 60}

\* the rows of the labels S in the order of the full table, res giving the
\* resolution of each
RECURSIVE Rows(_, _)
Rows(S, res) ==
    IF S = {} THEN <<>>
    ELSE LET first == CHOOSE l \in S : \A m \in S : l <= m
         IN  <<[label |-> first, resolution |-> res[first]]>> \o Rows(S \ {first}, res)

\* the non-empty tables of one band: one file per native resolution at most
BandTables ==
    UNION {{Rows(S, res) : res \in {f \in [S -> NativeResolutions] :
                                      \A l, m \in S : l # m => f[l] # f[m]}} :
             S \in (SUBSET RowLabels) \ {{}}}

InitBest ==
    /\ product = "complete"
    /\ target_resolution \in TargetResolutions
    /\ returns = [r \in {READERS[i] : i \in 1..Len(READERS)} |-> "DataArray"]
    /\ registry = StandardRegistry
    /\ band_df \in BandTables
    /\ best = None
    /\ Fresh

\* self._get_best(band_df)
GetBest ==
    /\ best = None
    /\ best' = get_best(band_df, target_resolution)
    /\ op' = [name |-> "_get_best", tags |-> <<>>, values |-> {}]
    /\ UNCHANGED <<product, target_resolution, returns, registry, band_df, message,
                   da, mask, gdf, err, calls, steps, firstOcc, requests, reqOr,
                   prevLen, nops>>

SpecBest == InitBest /\ [][GetBest]_vars

\* ---- construction over reader registries
\* a reader category's _PATTERNS with up to MaxExtra further patterns at its end
ExtraPatterns == {"B02", "SCL", "TCI"}
Extras == UNION {[1..n -> ExtraPatterns] : n \in 0..MaxExtra}
Registries ==
    {[r \in 1..Len(READERS) |->
         [module |-> READERS[r], patterns |-> PATTERNS(READERS[r]) \o extra[r]]] :
       extra \in [1..Len(READERS) -> Extras]}

\* mask arguments of the constructor: None (here <<>>) or one band with its values
MaskArgs == {<<>>} \cup {<<[band |-> t, values |-> v]>> : t \in Tags, v \in ValueSets}

\* L2AProduct(safe_path, mask=maskArg): _unique_tags first, then the mask
\* requests of the mask argument
Construct(maskArg) ==
    /\ op.name = "new"
    /\ op' = [name |-> "__init__",
              tags |-> [i \in 1..Len(maskArg) |-> maskArg[i].band],
              values |-> UNION {maskArg[i].values : i \in 1..Len(maskArg)}]
    /\ \E check \in {unique_tags(registry)} :
       \E t \in {IF check.err # "ok" THEN [Self EXCEPT !.err = check.err]
                  ELSE IF maskArg = <<>> THEN Self
                  ELSE add_mask(Self, files, maskArg[1].band, maskArg[1].values)} :
       LET src == (CHOOSE p \in {t.da[i] : i \in 1..Len(t.da)} :
                      p.band = maskArg[1].band).orig
       IN  /\ da' = t.da
           /\ mask' = t.mask
           /\ gdf' = t.gdf
           /\ err' = t.err
           /\ calls' = t.calls
           /\ steps' = t.steps
           /\ message' = check.message
           /\ reqOr' = IF t.err = "ok" /\ maskArg # <<>>
                       THEN [c \in Cells |-> reqOr[c] \/ src[c] \in maskArg[1].values]
                       ELSE reqOr
    /\ UNCHANGED <<product, target_resolution, returns, registry, band_df, best,
                   firstOcc, requests, prevLen, nops>>

InitRegistry ==
    /\ product \in Products
    /\ target_resolution = 10
    /\ returns = [r \in {READERS[i] : i \in 1..Len(READERS)} |-> "DataArray"]
    /\ registry \in Registries
    /\ band_df = <<>>
    /\ best = None
    /\ Empty
    /\ op = [name |-> "new", tags |-> <<>>, values |-> {}]

NextRegistry == \E maskArg \in MaskArgs : Construct(maskArg)

SpecRegistry == InitRegistry /\ [][NextRegistry]_vars

\* ---- reads through reader registries that hold regular expressions
\* a reader category's _PATTERNS with up to MaxExtra regular expressions at
\* its end
RegexPatterns == {"B0[2-4]", "TC."}
RegexExtras == UNION {[1..n -> RegexPatterns] : n \in 0..MaxExtra}
DispatchRegistries ==
    {[r \in 1..Len(READERS) |->
         [module |-> READERS[r], patterns |-> PATTERNS(READERS[r]) \o extra[r]]] :
       extra \in [1..Len(READERS) -> RegexExtras]}

InitDispatch ==
    /\ product \in Products
    /\ target_resolution = 10
    /\ returns = [r \in {READERS[i] : i \in 1..Len(READERS)} |-> "DataArray"]
    /\ registry \in DispatchRegistries
    /\ band_df = <<>>
    /\ best = None
    /\ Empty
    /\ op = [name |-> "new", tags |-> <<>>, values |-> {}]

\* construction without a mask argument, then read batches on the product if
\* construction returned one
NextDispatch ==
    \/ Construct(<<>>)
    \/ \E tags \in TagLists :
          /\ op.name # "new" /\ message = <<>>
          /\ Read(tags) /\ UNCHANGED <<firstOcc, requests>>

SpecDispatch == InitDispatch /\ [][NextDispatch]_vars

\* ---------------------------------------------------------------- claims
TagSet(d) == {d[i].band : i \in 1..Len(d)}

\* the Mask as a grid: nothing is masked while self._mask does not exist
MaskGrid(m) == IF m = None THEN [c \in Cells |-> FALSE] ELSE m

\* every band is no-data wherever the grid m is set
Masked(d, m) == \A i \in 1..Len(d) : \A c \in Cells : m[c] => d[i].data[c] = NaN

\* the requested tags that a reader claims and that are not in d, in order of
\* first occurrence
Claimed(tag) == \E r \in 1..Len(READERS) : InList(tag, PATTERNS(READERS[r]))
NewTags(d, tags) ==
    LET Wanted(t) == Claimed(t) /\ ~exists(d, t)
    IN  FirstOccurrences(<<>>, SelectSeq(tags, Wanted), 1)

\* C1: read() of tags that are all present invokes no reader and leaves the
\* Stack as it was: same bands, same order, same value in every cell.
C1_ReadOfPresentTagsChangesNothing ==
    [][(/\ op'.name = "read"
        /\ Len(op'.tags) > 0
        /\ \A i \in 1..Len(op'.tags) : exists(da, op'.tags[i]))
       => (calls' = <<>> /\ da' = da)]_vars

\* C2: no band tag occurs twice on the band axis of the Stack.
C2_BandTagsUnique ==
    \A i, j \in 1..Len(da) : i # j => da[i].band # da[j].band

\* C3 (as claimed): the band axis lists the tags present in the order of their
\* first occurrence over all read() calls ever issued.
C3_FirstOccurrenceOrder ==
    LET Present(t) == exists(da, t)
    IN  BandTags(da) = SelectSeq(firstOcc, Present)

\* C3 (amended): a read() call that returns normally keeps the bands present
\* where they are and appends the requested tags not yet present in request
\* order; remove() keeps the relative order of the bands it leaves.
C3_ReadAppendsInRequestOrder ==
    [][/\ (op'.name \in {"read", "_add_mask"} /\ err' = "ok")
          => BandTags(da') = BandTags(da) \o NewTags(da, op'.tags)
       /\ (op'.name = "remove" /\ err' = "ok")
          => LET Kept(t) == ~InList(t, op'.tags)
             IN  BandTags(da') = SelectSeq(BandTags(da), Kept)]_vars

\* a read has appended tags behind bands already present, and the band order
\* is not the first-occurrence order of the read() calls
C3_Witness ==
    /\ op.name = "read" /\ err = "ok"
    /\ calls # <<>> /\ Len(da) > Len(calls)
    /\ ~C3_FirstOccurrenceOrder

\* C4: a read() that raises leaves Stack, CompanionTable and Mask as they were
\* before the call.
C4_FailedReadChangesNothing ==
    [][(op'.name = "read" /\ err' # "ok")
       => (da' = da /\ gdf' = gdf /\ mask' = mask)]_vars

\* C5: when read() returns normally on a product whose Mask exists, every band
\* of the Stack is no-data at every cell set in the Mask.
C5_ReadLeavesStackMasked ==
    (op.name = "read" /\ err = "ok" /\ mask # None) => Masked(da, mask)

\* a read returned with a Mask that has a cell set, on a Stack of several
\* bands of which this batch merged one
C5_Witness ==
    /\ op.name = "read" /\ err = "ok" /\ mask # None
    /\ \E c \in Cells : mask[c]
    /\ Len(da) >= 2 /\ Len(calls) = 1

\* C6: constructed with the single mask request (tag, V), then one read batch:
\* every cell of every other band is no-data if the source band's value there
\* is in V, and holds the value the reader produced otherwise.
C6_SingleMaskThenRead ==
    [][(/\ nops = 1 /\ op.name = "_add_mask" /\ err = "ok"
        /\ op'.name = "read" /\ err' = "ok")
       => LET src == (CHOOSE p \in {da[i] : i \in 1..Len(da)} : p.band = op.tags[1]).orig
          IN  \A i \in 1..Len(da') : da'[i].band # op.tags[1] =>
                \A c \in Cells :
                   da'[i].data[c] = IF src[c] \in op.values THEN NaN ELSE da'[i].orig[c]]_vars

\* the product was built with one mask request that masks some cells and not
\* others, and the read that followed merged other bands
C6_Witness ==
    /\ nops = 2 /\ op.name = "read" /\ err = "ok" /\ mask # None
    /\ (\E c \in Cells : mask[c]) /\ (\E c \in Cells : ~mask[c])
    /\ Len(da) >= 2

\* C7: a mask request leaves the set of band tags of the Stack as it was.
C7_MaskRequestKeepsBandSet ==
    [][(op'.name = "_add_mask" /\ err' = "ok") => TagSet(da') = TagSet(da)]_vars

\* C8: the Mask is the cell-wise OR, over the mask requests accumulated so far,
\* of (unmasked source cell is one of the request's values), and a cell once
\* set stays set.
C8_MaskIsOrOfRequests ==
    /\ [](MaskGrid(mask) = reqOr)
    /\ [][\A c \in Cells : MaskGrid(mask)[c] => MaskGrid(mask')[c]]_vars

\* a mask request was accumulated into a Mask that covers every cell, which
\* no single request does
C8_Witness ==
    /\ op.name = "_add_mask" /\ err = "ok" /\ mask # None
    /\ \A c \in Cells : mask[c]

\* C9: on a non-empty Stack remove(T) raises nothing; it empties the Stack if
\* T names every band and otherwise leaves the bands not in T, in the same
\* order and with the same cell values.
C9_RemoveLeavesComplement ==
    [][(op'.name = "remove" /\ da # <<>>)
       => /\ err' = "ok"
          /\ LET Kept(p) == ~InList(p.band, op'.tags)
             IN  IF \A i \in 1..Len(da) : InList(da[i].band, op'.tags)
                 THEN da' = <<>>
                 ELSE da' = SelectSeq(da, Kept)]_vars

\* a remove has dropped some bands of the Stack and left others
C9_Witness ==
    /\ op.name = "remove" /\ err = "ok"
    /\ 0 < Len(da) /\ Len(da) < prevLen

\* C10: remove() on an empty Stack raises ValueError for every tag list and
\* leaves Stack, Mask and CompanionTable as they were.
C10_RemoveOnEmptyStackFails ==
    [][(op'.name = "remove" /\ da = <<>>)
       => (err' = "ValueError" /\ da' = da /\ mask' = mask /\ gdf' = gdf)]_vars

\* remove was called on a Stack emptied by an earlier remove (the Mask exists,
\* so its source band had been merged) and raised
C10_Witness ==
    /\ op.name = "remove" /\ err = "ValueError"
    /\ prevLen = 0 /\ mask # None

\* C11: update() given both a raster and a table, or neither, raises and
\* leaves Stack and CompanionTable as they were; given a raster only it puts
\* the raster at the end of the band axis (it becomes the Stack when the Stack
\* is empty); given a table only it puts the rows after the rows present (they
\* become the table when there is none).
C11_UpdateTakesExactlyOne ==
    [][op'.name = "update"
       => LET raster == op'.tags # <<>>
              table  == op'.values # {}
          IN  IF raster = table
              THEN err' # "ok" /\ da' = da /\ gdf' = gdf
              ELSE /\ err' = "ok"
                   /\ raster => \E plane \in UpdatePlanes :
                                   /\ plane.band = op'.tags[1]
                                   /\ da' = IF da = <<>> THEN <<plane>> ELSE Append(da, plane)
                   /\ table => \E row \in op'.values :
                                   gdf' = IF gdf = <<>> THEN <<row>> ELSE Append(gdf, row)]_vars

\* update() has put a raster behind a band that a read had merged, on a
\* product whose table holds rows
C11_Witness ==
    /\ op.name = "update" /\ err = "ok" /\ op.tags # <<>>
    /\ Len(da) >= 2 /\ da[1].band # da[Len(da)].band
    /\ gdf # <<>>

\* C12: read() of a tag list that holds a tag no reader claims does not
\* return normally: it raises for that tag.
C12_UnclaimedTagRaises ==
    [][(/\ op'.name = "read"
        /\ \E i \in 1..Len(op'.tags) : ~Claimed(op'.tags[i]))
       => err' # "ok"]_vars

\* the reader categories (by position in _READERS) whose _PATTERNS hold t
Owners(t) == {r \in 1..Len(registry) : InList(t, registry[r].patterns)}

\* the patterns that two different reader categories hold
Colliding ==
    {t \in UNION {{registry[r].patterns[i] : i \in 1..Len(registry[r].patterns)} :
                     r \in 1..Len(registry)} : Cardinality(Owners(t)) >= 2}

\* C13: if two reader categories claim the same tag pattern, construction
\* raises an error that names every colliding tag with all the categories
\* owning it, before any band is read and before any mask request is
\* processed; if the pattern sets are pairwise disjoint, construction does not
\* fail on this check.
C13_CollisionsFailConstruction ==
    op.name = "__init__"
    => IF Colliding # {}
       THEN /\ err = "ValueError" /\ calls = <<>> /\ da = <<>> /\ mask = None
            /\ \A t \in Colliding : \E i \in 1..Len(message) :
                  /\ message[i].tag = t
                  /\ {message[i].readers[j] : j \in 1..Len(message[i].readers)}
                        = {registry[r].module : r \in Owners(t)}
       ELSE message = <<>>

\* the native resolutions of the listed files that carry the tag's name
Candidates(tag) == {f.resolution : f \in {g \in files : g.name = tag}}

\* C14: when the files of a tag have the native resolutions 10, 20 and 60, the
\* file a read opens for it is the one whose resolution equals the target
\* resolution if there is one (target 20: the 20 m file), and the one with the
\* smallest resolution otherwise (target 15: the 10 m file).
C14_ExactResolutionPreferred ==
    \A i \in 1..Len(steps) :
       (steps[i].ev = "fetch" /\ Candidates(steps[i].tag) = {10, 20, 60})
       => steps[i].res = IF target_resolution \in Candidates(steps[i].tag)
                         THEN target_resolution
                         ELSE 10

\* the digital number the product's file of a band holds at cell c
Digital(tag, c) == RawOf(tag)[c] + (CHOOSE f \in files : f.name = tag).dn

\* C15: a reflectance band holds (d + o) / q at every cell, o being the band's
\* additive offset and q the reflectance (BOA) quantification value; an
\* atmospheric band holds d / q', q' being the quantification value of its own
\* tag; the classification band holds d itself.
C15_Calibration ==
    \A i \in 1..Len(da) : \A c \in Cells :
       LET tag == da[i].band
           d   == Digital(tag, c)
       IN  da[i].data[c] =
              CASE InList(tag, PATTERNS(ReflectanceReader)) ->
                     Rat(d + BOA_ADD_OFFSET[tag], QUANTIFICATION_VALUE["BOA"])
                [] InList(tag, PATTERNS(AtmosphericReader)) ->
                     Rat(d, QUANTIFICATION_VALUE[tag])
                [] InList(tag, PATTERNS(ClassificationReader)) -> <<d, 1>>

\* a read has merged a band of each category, both atmospheric bands among
\* them, from files whose digital numbers are not those of the plain product
C15_Witness ==
    /\ op.name = "read" /\ err = "ok" /\ calls # <<>>
    /\ product = "aerosol_bright"
    /\ \A t \in {"B02", "SCL", "WVP", "AOT"} : exists(da, t)

\* the reader category read() dispatches a claimed tag to
ReaderOf(tag) == CHOOSE reader \in {READERS[r] : r \in 1..Len(READERS)} :
                    InList(tag, PATTERNS(reader))

\* the rows of a table that came from the reader of a tag
RowsOf(table, tag) == {j \in 1..Len(table) : table[j].row = tag}

\* C16: when the reader read() dispatched for a tag hands back something that
\* is neither a DataArray nor a DataFrame, read() raises at that tag, and
\* neither the Stack nor the CompanionTable receives anything for the tag.
C16_UnsupportedTypeRaises ==
    [][op'.name = "read"
       => \A i \in 1..Len(calls') :
             returns[ReaderOf(calls'[i])] = "other"
             => /\ err' = "Exception"
                /\ i = Len(calls')
                /\ ~exists(da', calls'[i])
                /\ RowsOf(gdf', calls'[i]) = RowsOf(gdf, calls'[i])]_vars

\* a read batch merged the band of its first tag, and its second tag's reader
\* handed back an unsupported object
C16_Witness ==
    /\ op.name = "read" /\ err = "Exception"
    /\ Len(calls) = 2 /\ returns[ReaderOf(calls[2])] = "other"
    /\ exists(da, calls[1])

\* C17: between operations, whenever the Mask exists and the Stack is not
\* empty, every cell set in the Mask is no-data in every band of the Stack.
C17_MaskedCellsAreNoData ==
    (mask # None /\ da # <<>>) => Masked(da, mask)

\* what the steps of a log are and for which tag, without the file opened
Trace(log) == [i \in 1..Len(log) |-> <<log[i].ev, log[i].tag>>]

\* locate, fetch and resample, calibrate (the classification band has no
\* calibration) and merge, tag after tag
RECURSIVE InSequence(_, _)
InSequence(tags, i) ==
    IF i > Len(tags) THEN <<>>
    ELSE <<<<"locate", tags[i]>>, <<"fetch", tags[i]>>>>
         \o (IF tags[i] = "SCL" THEN <<>> ELSE <<<<"calibrate", tags[i]>>>>)
         \o <<<<"merge", tags[i]>>>>
         \o InSequence(tags, i + 1)

\* C18: within a read() that returns normally, the tags not yet present are
\* handled one after the other in the caller's order, each located, fetched
\* and resampled, calibrated and merged in that order, the merge of a tag
\* preceding the locating of the next; the Mask is applied exactly once, after
\* the merge of the last tag.  In a read() that raises, no step before the
\* last one applies the Mask.
C18_StepsInSequence ==
    [][op'.name = "read"
       => IF err' = "ok"
          THEN Trace(steps') = InSequence(NewTags(da, op'.tags), 1) \o <<<<"apply_mask", "">>>>
          ELSE \A i \in 1..(Len(steps') - 1) : steps'[i].ev # "apply_mask"]_vars

\* a read batch merged two bands, a calibrated one among them, on a product
\* whose Mask has a cell set
C18_Witness ==
    /\ op.name = "read" /\ err = "ok" /\ Len(calls) = 2
    /\ \E i \in 1..Len(steps) : steps[i].ev = "calibrate"
    /\ mask # None /\ \E c \in Cells : mask[c]

C20_BestRow ==
    op.name = "_get_best"
    => LET rows     == {band_df[i] : i \in 1..Len(band_df)}
           finest   == CHOOSE r \in rows : \A q \in rows : r.resolution <= q.resolution
       IN  /\ best.err = "ok"
           /\ best.val \in rows
           /\ best.val.resolution =
                 IF \E r \in rows : r.resolution = target_resolution
                 THEN target_resolution
                 ELSE finest.resolution

\* C21: once the Mask exists, neither remove() nor read() changes it, not even
\* when the masking source band is removed or the Stack is emptied, and every
\* band that a later read() returning normally merges is no-data at every
\* cell set in that Mask.
C21_MaskOutlivesItsSource ==
    [][(mask # None /\ op'.name \in {"read", "remove"})
       => /\ mask' # None /\ mask' = mask
          /\ (op'.name = "read" /\ err' = "ok")
             => \A i \in 1..Len(da') : InList(da'[i].band, calls')
                   => \A c \in Cells : mask[c] => da'[i].data[c] = NaN]_vars

\* the Stack had been emptied, the masking source band with it, and the read
\* that followed merged another band under a Mask that has a cell set
C21_Witness ==
    /\ op.name = "read" /\ err = "ok" /\ calls # <<>>
    /\ prevLen = 0
    /\ mask # None /\ \E c \in Cells : mask[c]
    /\ \A c \in Cells : mask[c] <=> (RawOf("SCL")[c] = 1)
    /\ ~exists(da, "SCL")

\* the values the reader of a tag produces, before any mask is applied
Unmasked(tag) == ReaderRead(ReaderOf(tag), files, tag).val.data

\* C22: the Mask is a function of the set of mask requests accumulated: it is
\* set at a cell exactly when some request's values hold the unmasked value of
\* the request's source band there, whatever the order of the requests and
\* whether or not the source band was in the Stack, with cells already turned
\* to no-data, when a request was made.
C22_MaskDependsOnRequestSetOnly ==
    MaskGrid(mask) =
       [c \in Cells |-> \E q \in requests : Unmasked(q.tag)[c] \in q.values]

\* a second request was made on a source band that was in the Stack with a
\* cell already turned to no-data, and it has set a further cell of the Mask
C22_Witness ==
    /\ op.name = "_add_mask" /\ err = "ok" /\ calls = <<>>
    /\ Cardinality({q \in requests : q.tag = op.tags[1]}) = 2
    /\ \E i \in 1..Len(da) :
          /\ da[i].band = op.tags[1]
          /\ \E c \in Cells : da[i].data[c] = NaN
          /\ \E c \in Cells : mask[c] /\ da[i].data[c] # NaN

\* C23: read() on a product whose Mask exists and whose Stack is empty, with a
\* batch that merges no plane, returns normally and leaves the Stack empty
\* and the Mask as it was.
C23_ReadOnEmptyMaskedStack ==
    [][(/\ op'.name = "read"
        /\ mask # None /\ da = <<>>
        /\ \A i \in 1..Len(op'.tags) : ~Claimed(op'.tags[i]))
       => (err' = "ok" /\ da' = <<>> /\ mask' # None /\ mask' = mask)]_vars

\* C24: update() with a table only leaves the Stack and the Mask as they
\* were; update() with a raster only leaves the CompanionTable as it was;
\* remove() never changes the CompanionTable.
C24_StackAndTableDisjoint ==
    [][/\ (op'.name = "update" /\ err' = "ok" /\ op'.values # {})
          => /\ da' = da
             /\ \/ mask = None /\ mask' = None
                \/ mask # None /\ mask' # None /\ mask' = mask
       /\ (op'.name = "update" /\ err' = "ok" /\ op'.tags # <<>>) => gdf' = gdf
       /\ op'.name = "remove" => gdf' = gdf]_vars

\* a raster was merged into a product that holds table rows, the Mask and a
\* band that a read had merged
C24_Witness ==
    /\ op.name = "update" /\ err = "ok" /\ op.tags # <<>>
    /\ gdf # <<>> /\ Len(da) >= 2
    /\ mask # None /\ \E c \in Cells : mask[c]

\* C25: for every requested tag not yet in the Stack, a read() that returns
\* normally invokes a reader for the tag exactly when the tag equals, or as a
\* regular expression is fully matched by, a pattern of some reader category
\* (BaseReader.compatible), and invokes at most one reader for it.
C25_DispatchIffCompatible ==
    [][(op'.name = "read" /\ err' = "ok")
       => \A i \in 1..Len(op'.tags) :
             ~exists(da, op'.tags[i])
             => /\ InList(op'.tags[i], calls')
                   <=> \E r \in 1..Len(registry) :
                          compatible(op'.tags[i], registry[r].patterns)
                /\ Cardinality({j \in 1..Len(calls') : calls'[j] = op'.tags[i]}) <= 1]_vars

====
